---- MODULE Spec2Model ----
(***************************************************************************)
(* Model of local_mcp/music.py: the recursive directory-listing cache      *)
(* (get_all_files), the skip predicate (should_skip), random selection     *)
(* and the playlist command builder (mpd_play_tracks), run by asyncio      *)
(* tasks that switch only at the awaits on the HTTP client.                *)
(*                                                                         *)
(* Strings are sequences of one-character strings, so that unquote,        *)
(* re.search on a literal pattern, the substring test and sorted() are     *)
(* computed and not assumed.  An optional value (skip: str | None) is a    *)
(* sequence of length 0 (None) or 1.                                       *)
(***************************************************************************)
EXTENDS Integers, Sequences, FiniteSets, TLC

\* ------------------------------------------------------------------ bounds

\* time.time() takes the values 0..MaxTime
MaxTime == 3

\* mdp_play_random_tracks is called with count in -1..MaxCount
MaxCount == 2

\* the number of tool calls served in one behaviour
MaxCalls == 2

\* settings.CACHE_TIMEOUT, read from the environment; scaled to the clock
CACHE_TIMEOUT == 2

\* sys.getrecursionlimit(), scaled: the number of nested get_all_files
\* frames the interpreter allows before it raises RecursionError
RecursionLimit == 4

\* ----------------------------------------------------------------- strings

\* code points of the characters the modelled names are made of
Ord == (" " :> 32) @@ ("%" :> 37) @@ ("." :> 46) @@ ("/" :> 47) @@
       ("1" :> 49) @@ ("2" :> 50) @@ ("3" :> 51) @@ ("4" :> 52) @@
       ("5" :> 53) @@ ("7" :> 55) @@ ("8" :> 56) @@
       ("c" :> 99) @@ ("A" :> 65) @@ ("D" :> 68) @@ ("F" :> 70) @@ ("S" :> 83) @@
       ("T" :> 84) @@ ("a" :> 97) @@ ("b" :> 98) @@ ("d" :> 100) @@
       ("e" :> 101) @@ ("h" :> 104) @@ ("i" :> 105) @@ ("l" :> 108) @@
       ("m" :> 109) @@ ("n" :> 110) @@ ("p" :> 112) @@ ("r" :> 114) @@
       ("s" :> 115) @@ ("x" :> 120) @@ ("U+FFFD" :> 65533) @@
       ("U+??" :> 0)

Alphabet == DOMAIN Ord

\* value of a hexadecimal digit
HexVal == ("0" :> 0) @@ ("1" :> 1) @@ ("2" :> 2) @@ ("3" :> 3) @@
          ("4" :> 4) @@ ("5" :> 5) @@ ("6" :> 6) @@ ("7" :> 7) @@
          ("8" :> 8) @@ ("9" :> 9) @@
          ("a" :> 10) @@ ("b" :> 11) @@ ("c" :> 12) @@ ("d" :> 13) @@
          ("e" :> 14) @@ ("f" :> 15) @@
          ("A" :> 10) @@ ("B" :> 11) @@ ("C" :> 12) @@ ("D" :> 13) @@
          ("E" :> 14) @@ ("F" :> 15)

\* the character a decoded byte stands for: an ASCII byte is its character,
\* a lone byte above 127 is not UTF-8 and decodes (errors='replace') to
\* U+FFFD; "U+??" stands for the ASCII characters outside Alphabet, which
\* no modelled name produces
Chr(code) ==
    IF code >= 128 THEN "U+FFFD"
    ELSE IF \E c \in Alphabet : Ord[c] = code
         THEN CHOOSE c \in Alphabet : Ord[c] = code
         ELSE "U+??"

RECURSIVE unquote(_)
\* urllib.parse.unquote: one pass, each %XX replaced by its character,
\* a % not followed by two hex digits kept
unquote(s) ==
    IF s = <<>> THEN <<>>
    ELSE IF /\ Head(s) = "%"
            /\ Len(s) >= 3
            /\ s[2] \in DOMAIN HexVal
            /\ s[3] \in DOMAIN HexVal
         THEN <<Chr(16 * HexVal[s[2]] + HexVal[s[3]])>>
                  \o unquote(SubSeq(s, 4, Len(s)))
         ELSE <<Head(s)>> \o unquote(Tail(s))

\* substring test ("x" in s), also re.search for a pattern of literals
Contains(sub, s) ==
    \E i \in 0..(Len(s) - Len(sub)) : SubSeq(s, i + 1, i + Len(sub)) = sub

RECURSIVE StrLess(_, _)
\* s < t for Python strings: by code point, a proper prefix first
StrLess(s, t) ==
    IF t = <<>> THEN FALSE
    ELSE IF s = <<>> THEN TRUE
    ELSE IF Head(s) # Head(t) THEN Ord[Head(s)] < Ord[Head(t)]
    ELSE StrLess(Tail(s), Tail(t))

RECURSIVE Insert(_, _)
Insert(x, sortedSeq) ==
    IF sortedSeq = <<>> THEN <<x>>
    ELSE IF StrLess(x, Head(sortedSeq)) THEN <<x>> \o sortedSeq
    ELSE <<Head(sortedSeq)>> \o Insert(x, Tail(sortedSeq))

RECURSIVE sorted(_)
\* sorted(list of str)
sorted(seq) ==
    IF seq = <<>> THEN <<>> ELSE Insert(Head(seq), sorted(Tail(seq)))

\* [unquote(x) for x in seq]
UnquoteAll(seq) == [i \in 1..Len(seq) |-> unquote(seq[i])]

Min(a, b) == IF a < b THEN a ELSE b

\* ------------------------------------------------------- names and gateway

None == <<>>
Some(v) == <<v>>

\* the literal of should_skip: "The Dresden Files"
EXCLUDED ==
    <<"T","h","e"," ","D","r","e","s","d","e","n"," ","F","i","l","e","s">>

pRoot == <<>>
pA == <<"A">>
pX == <<"x">>
pD == EXCLUDED
pC == <<"c">>
pCD == <<"c", "/", "d">>

\* The remote library, as the dirbrowser page reports it: for each directory
\* the percent-encoded names of its tracks and of its subdirectories.
\*   ""                  r                     A, x, The%20Dresden%20Files
\*   A                   A/x2  A/%2578
\*   x                   x/4
\*   The Dresden Files   The%20Dresden%20Files/5
\* and, apart from the root, a malformed pair of pages: c lists c/d, and c/d
\* lists c, its own parent, as a subdirectory
\*   c                   c/1                   c/d
\*   c/d                 c/d/2                 c
Tree ==
    (pRoot :> [files |-> << <<"r">> >>,
               directories |-> << <<"A">>, <<"x">>,
                   <<"T","h","e","%","2","0","D","r","e","s","d","e","n",
                     "%","2","0","F","i","l","e","s">> >>]) @@
    (pA :> [files |-> << <<"A","/","x","2">>,
                         <<"A","/","%","2","5","7","8">> >>,
            directories |-> <<>>]) @@
    (pX :> [files |-> << <<"x","/","4">> >>, directories |-> <<>>]) @@
    (pD :> [files |-> << <<"T","h","e","%","2","0","D","r","e","s","d","e",
                           "n","%","2","0","F","i","l","e","s","/","5">> >>,
            directories |-> <<>>]) @@
    (pC :> [files |-> << <<"c","/","1">> >>,
            directories |-> << <<"c","/","d">> >>]) @@
    (pCD :> [files |-> << <<"c","/","d","/","2">> >>,
             directories |-> << <<"c">> >>])

\* the page of a directory (a path the library does not hold lists nothing)
Page(path) ==
    IF path \in DOMAIN Tree THEN Tree[path]
    ELSE [files |-> <<>>, directories |-> <<>>]

\* get_files after a 2xx response: the File and Folder paths, unquoted
get_files(path) ==
    [files |-> UnquoteAll(Page(path).files),
     directories |-> UnquoteAll(Page(path).directories)]

\* should_skip(path, skip); skip is None or Some(pattern), the pattern a
\* regular expression made of literal characters
should_skip(path, skip) ==
    \/ /\ skip # None
       /\ skip[1] # <<>>
       /\ Contains(skip[1], path)
    \/ Contains(EXCLUDED, path)

\* ------------------------------------------------------------------- cache

\* CacheKey with the pattern left out
CacheKeyNoSkip(path, skip) == <<path, None>>

\* key = (path, skip)
CacheKey(path, skip) == <<path, skip>>

\* CacheFresh without the age test: an entry never expires
CacheFreshForever(c, key, t) == key \in DOMAIN c

\* CacheFresh with an entry of age CACHE_TIMEOUT still served
CacheFreshInclusive(c, key, t) ==
    /\ key \in DOMAIN c
    /\ t - c[key].ts <= CACHE_TIMEOUT

\* key in cache and time.time() - ts < CACHE_TIMEOUT
CacheFresh(c, key, t) ==
    /\ key \in DOMAIN c
    /\ t - c[key].ts < CACHE_TIMEOUT

\* CachePut that also drops the entries that have expired
CachePutPurge(c, key, res, t) ==
    [k \in {j \in DOMAIN c : t - c[j].ts < CACHE_TIMEOUT} \cup {key} |->
        IF k = key THEN [files |-> res, ts |-> t] ELSE c[k]]

\* CachePut that keeps the entry a key already has
CachePutIfAbsent(c, key, res, t) ==
    [k \in DOMAIN c \cup {key} |->
        IF k \in DOMAIN c THEN c[k] ELSE [files |-> res, ts |-> t]]

\* cache[key] = (res, time.time())
CachePut(c, key, res, t) ==
    [k \in DOMAIN c \cup {key} |->
        IF k = key THEN [files |-> res, ts |-> t] ELSE c[k]]

\* CacheAfterHit with the entry's timestamp renewed by the read
CacheTouch(c, key, t) == [c EXCEPT ![key].ts = t]

\* the cache after get_all_files returned from it: the hit branch assigns
\* nothing
CacheAfterHit(c, key, t) == c

\* Branch without the cache lookup
BranchNoCache(c, path, skip, t) ==
    IF should_skip(path, skip) THEN "skip" ELSE "fetch"

\* Branch without the test of should_skip(path, skip)
BranchNoSkip(c, path, skip, t) ==
    IF CacheFresh(c, CacheKey(path, skip), t) THEN "hit" ELSE "fetch"

\* the branch get_all_files takes on entry
Branch(c, path, skip, t) ==
    IF CacheFresh(c, CacheKey(path, skip), t) THEN "hit"
    ELSE IF should_skip(path, skip) THEN "skip"
    ELSE "fetch"

\* Accumulate with the child's files put in front
AccumulateFront(acc, res) == res \o acc

\* all_files += await get_all_files(client, directory["folder"], skip)
Accumulate(acc, res) == acc \o res

RECURSIVE FilterFiles(_, _)

\* FilterFiles without the second filter
FilterNone(files, skip) == files

\* res = [file for file in all_files if not should_skip(file["file"], skip)]
FilterFiles(files, skip) ==
    IF files = <<>> THEN <<>>
    ELSE IF should_skip(Head(files), skip) THEN FilterFiles(Tail(files), skip)
    ELSE <<Head(files)>> \o FilterFiles(Tail(files), skip)

\* ---------------------------------------------------------- pure selection

\* SampleSize without the min
SampleSizeCount(count, n) == count

\* k = min(count, len(all_files))
SampleSize(count, n) == Min(count, n)

\* random.choices(population, k=k): every list of k draws with replacement;
\* itertools.repeat(None, k) yields nothing for k <= 0
choices(population, k) ==
    LET n == Len(population)
        kk == IF k < 0 THEN 0 ELSE k
    IN  { [i \in 1..kk |-> population[idx[i]]] : idx \in [1..kk -> 1..n] }

\* SortedTracks without the sort
TracksAsDrawn(chosen) == UnquoteAll(chosen)

\* sorted([unquote(file["file"]) for file in random_files])
SortedTracks(chosen) == sorted(UnquoteAll(chosen))

\* Commands with play appended before the adds
CommandsPlayFirst(tracks, clear_first, start_playing) ==
    LET c0 == <<>>
        c1 == IF clear_first THEN Append(c0, <<"clear">>) ELSE c0
        c2 == IF start_playing THEN Append(c1, <<"play">>) ELSE c1
    IN  c2 \o [i \in 1..Len(tracks) |-> <<"add", tracks[i]>>]

\* Commands with the tracks sorted first
CommandsSorted(tracks, clear_first, start_playing) ==
    LET c0 == <<>>
        c1 == IF clear_first THEN Append(c0, <<"clear">>) ELSE c0
        c2 == c1 \o [i \in 1..Len(tracks) |-> <<"add", sorted(tracks)[i]>>]
        c3 == IF start_playing THEN Append(c2, <<"play">>) ELSE c2
    IN  c3

\* the command list mpd_play_tracks posts
Commands(tracks, clear_first, start_playing) ==
    LET c0 == <<>>
        c1 == IF clear_first THEN Append(c0, <<"clear">>) ELSE c0
        c2 == c1 \o [i \in 1..Len(tracks) |-> <<"add", tracks[i]>>]
        c3 == IF start_playing THEN Append(c2, <<"play">>) ELSE c2
    IN  c3

\* ------------------------------------------------------------------- state

\* the asyncio tasks serving tool calls
Tasks == {1}

\* the arguments a tool is called with
Paths == {pRoot, pA, pX, pD}
Skips == {None, Some(<<"x">>)}
Counts == (0 - 1)..MaxCount
\* <<clear_first, start_playing>> of the calls of mdp_play_random_tracks
Flags == {<<TRUE, FALSE>>, <<FALSE, TRUE>>}
TrackLists ==
    { <<>>,
      << <<"b",".","m","p","3">>, <<"a",".","m","p","3">> >>,
      << <<"a",".","m","p","3">>, <<"a",".","m","p","3">> >> }

VARIABLES
    now,          \* time.time()
    cache,        \* the module's cache dict: (path, skip) -> (res, ts)
    obtained,     \* per cache key: when the oldest of the dirbrowser
                  \* responses that its entry is made of was received
    running,      \* the task the event loop is running, 0 when all await I/O
    status,       \* per task: idle, collecting, selecting, playing, posting,
                  \* done, failed
    req,          \* per task: the tool call being served; count and the two
                  \* flags of mdp_play_random_tracks are drawn where the
                  \* code first reads them, after get_all_files
    stack,        \* per task: the get_all_files frames, innermost last
    ret,          \* per task: what the last finished get_all_files returned
    all_files,    \* per task: all_files of mdp_play_random_tracks
    random_files, \* per task: random_files of mdp_play_random_tracks
    tracks,       \* per task: the tracks mpd_play_tracks is called with
    result,       \* per task: what the tool call gave its caller
    fetched,      \* per task: the paths of the dirbrowser requests sent
    posted,       \* per task: the command lists of the player requests sent
    written,      \* per task: the cache keys assigned during the call
    failedAt,     \* per task: the path whose dirbrowser request failed
    calls         \* the number of tool calls started

vars == <<now, cache, obtained, running, status, req, stack, ret, all_files,
          random_files, tracks, result, fetched, posted, written, failedAt, calls>>

NoReq == [tool |-> "none", path |-> <<>>, count |-> 0, clear_first |-> FALSE,
          start_playing |-> FALSE, skip |-> None]

Init ==
    /\ now = 0
    /\ cache = <<>>
    /\ obtained = <<>>
    /\ running = 0
    /\ status = [t \in Tasks |-> "idle"]
    /\ req = [t \in Tasks |-> NoReq]
    /\ stack = [t \in Tasks |-> <<>>]
    /\ ret = [t \in Tasks |-> None]
    /\ all_files = [t \in Tasks |-> <<>>]
    /\ random_files = [t \in Tasks |-> <<>>]
    /\ tracks = [t \in Tasks |-> <<>>]
    /\ result = [t \in Tasks |-> "none"]
    /\ fetched = [t \in Tasks |-> <<>>]
    /\ posted = [t \in Tasks |-> <<>>]
    /\ written = [t \in Tasks |-> {}]
    /\ failedAt = [t \in Tasks |-> None]
    /\ calls = 0

\* a get_all_files frame; oldest is when the oldest of the dirbrowser
\* responses gathered in all_files was received (-1 before the first)
Frame(path) ==
    [path |-> path, pc |-> "enter", all_files |-> <<>>, dirs |-> <<>>,
     oldest |-> 0 - 1]

Top(t) == stack[t][Len(stack[t])]

\* a task that serves no call: none yet, or its last call has ended
Free(t) == status[t] \in {"idle", "done", "failed"}

\* a tool call starts: the per-call bookkeeping is reset
Begin(t, r) ==
    /\ running = 0
    /\ Free(t)
    /\ calls < MaxCalls
    /\ calls' = calls + 1
    /\ running' = t
    /\ req' = [req EXCEPT ![t] = r]
    /\ ret' = [ret EXCEPT ![t] = None]
    /\ all_files' = [all_files EXCEPT ![t] = <<>>]
    /\ random_files' = [random_files EXCEPT ![t] = <<>>]
    /\ result' = [result EXCEPT ![t] = "none"]
    /\ fetched' = [fetched EXCEPT ![t] = <<>>]
    /\ posted' = [posted EXCEPT ![t] = <<>>]
    /\ written' = [written EXCEPT ![t] = {}]
    /\ failedAt' = [failedAt EXCEPT ![t] = None]

\* mdp_play_random_tracks is called with a path of paths: it calls
\* get_all_files(client, path, skip)
PlayRandom(t, paths) ==
    \E path \in paths, skip \in Skips :
        /\ Begin(t, [tool |-> "play_random", path |-> path, count |-> 0,
                     clear_first |-> FALSE, start_playing |-> FALSE,
                     skip |-> skip])
        /\ status' = [status EXCEPT ![t] = "collecting"]
        /\ stack' = [stack EXCEPT ![t] = <<Frame(path)>>]
        /\ tracks' = [tracks EXCEPT ![t] = <<>>]
        /\ UNCHANGED <<now, cache, obtained>>

PlayRandomCall(t) == PlayRandom(t, Paths)

\* the tool mpd_play_tracks is called
PlayTracksCall(t) ==
    \E trks \in TrackLists, cf, sp \in BOOLEAN :
        /\ Begin(t, [tool |-> "play_tracks", path |-> <<>>, count |-> 0,
                     clear_first |-> cf, start_playing |-> sp, skip |-> None])
        /\ status' = [status EXCEPT ![t] = "playing"]
        /\ tracks' = [tracks EXCEPT ![t] = trks]
        /\ UNCHANGED <<now, cache, obtained, stack>>

\* get_all_files returns res: the frame is popped; the caller, if it is
\* get_all_files, does all_files += res and goes on with its loop, and if it
\* is mdp_play_random_tracks, binds all_files
ReturnFrom(t, res, how) ==
    LET rest == SubSeq(stack[t], 1, Len(stack[t]) - 1)
        old == IF how = "hit"
               THEN obtained[CacheKey(Top(t).path, req[t].skip)]
               ELSE IF how = "skip" THEN now ELSE Top(t).oldest
    IN
    /\ ret' = [ret EXCEPT ![t] =
                  Some([path |-> Top(t).path, files |-> res, how |-> how])]
    /\ IF rest = <<>>
       THEN /\ stack' = [stack EXCEPT ![t] = <<>>]
            /\ all_files' = [all_files EXCEPT ![t] = res]
            /\ status' = [status EXCEPT ![t] = "selecting"]
       ELSE /\ stack' = [stack EXCEPT ![t] =
                   [rest EXCEPT ![Len(rest)].all_files = Accumulate(@, res),
                                ![Len(rest)].oldest = Min(@, old),
                                ![Len(rest)].pc = "loop"]]
            /\ UNCHANGED <<all_files, status>>

\* get_all_files from its first line to its first await or its return
Enter(t) ==
    /\ running = t
    /\ status[t] = "collecting"
    /\ stack[t] # <<>>
    /\ Top(t).pc = "enter"
    /\ LET path == Top(t).path
           skip == req[t].skip
           key == CacheKey(path, skip)
           branch == Branch(cache, path, skip, now)
       IN  \/ /\ branch = "hit"
              /\ cache' = CacheAfterHit(cache, key, now)
              /\ ReturnFrom(t, cache[key].files, "hit")
              /\ UNCHANGED <<obtained, written, fetched, running>>
           \/ /\ branch = "skip"
              /\ cache' = CachePut(cache, key, <<>>, now)
              /\ obtained' = (key :> now) @@ obtained
              /\ written' = [written EXCEPT ![t] = @ \cup {key}]
              /\ ReturnFrom(t, <<>>, "skip")
              /\ UNCHANGED <<fetched, running>>
           \/ /\ branch = "fetch"
              /\ stack' = [stack EXCEPT ![t][Len(stack[t])].pc = "fetch"]
              /\ fetched' = [fetched EXCEPT ![t] = Append(@, path)]
              /\ running' = 0
              /\ UNCHANGED <<cache, obtained, written, ret, all_files,
                             status>>
    /\ UNCHANGED <<now, req, random_files, tracks, result, posted, failedAt,
                   calls>>

\* the dirbrowser request is answered 2xx: all_files is the page's files and
\* the loop over its directories starts
FetchOk(t) ==
    /\ running = 0
    /\ status[t] = "collecting"
    /\ stack[t] # <<>>
    /\ Top(t).pc = "fetch"
    /\ LET directory == get_files(Top(t).path) IN
       stack' = [stack EXCEPT ![t][Len(stack[t])] =
                    [@ EXCEPT !.pc = "loop",
                              !.all_files = directory.files,
                              !.dirs = directory.directories,
                              !.oldest = now]]
    /\ running' = t
    /\ UNCHANGED <<now, cache, obtained, status, req, ret, all_files, random_files,
                   tracks, result, fetched, posted, written, failedAt, calls>>

\* CacheAfterFailure storing what the outermost frame has gathered so far
CachePartial(c, frames, skip, t) ==
    CachePut(c, <<frames[1].path, skip>>, frames[1].all_files, t)

\* what an exception raised in get_files leaves in the cache: it leaves
\* every frame of get_all_files before the assignment to cache[key]
CacheAfterFailure(c, frames, skip, t) == c

\* FetchFail with the exception swallowed: the directory counts as empty
FetchFailSwallow(t) ==
    /\ running = 0
    /\ status[t] = "collecting"
    /\ stack[t] # <<>>
    /\ Top(t).pc = "fetch"
    /\ stack' = [stack EXCEPT ![t][Len(stack[t])].pc = "loop"]
    /\ failedAt' = [failedAt EXCEPT ![t] = Some(Top(t).path)]
    /\ running' = t
    /\ UNCHANGED <<now, cache, obtained, status, req, ret, all_files, random_files,
                   tracks, result, fetched, posted, written, calls>>

\* the dirbrowser request fails (transport error, timeout, raise_for_status):
\* the exception leaves every frame and mdp_play_random_tracks
FetchFail(t) ==
    /\ running = 0
    /\ status[t] = "collecting"
    /\ stack[t] # <<>>
    /\ Top(t).pc = "fetch"
    /\ cache' = CacheAfterFailure(cache, stack[t], req[t].skip, now)
    /\ stack' = [stack EXCEPT ![t] = <<>>]
    /\ status' = [status EXCEPT ![t] = "failed"]
    /\ result' = [result EXCEPT ![t] = "GatewayError"]
    /\ failedAt' = [failedAt EXCEPT ![t] = Some(Top(t).path)]
    /\ UNCHANGED <<now, obtained, running, req, ret, all_files,
                   random_files, tracks, fetched, posted, written, calls>>

\* Loop without RecursionError: where the interpreter allows no further
\* frame the nested call is neither made nor refused
LoopNoRaise(t) ==
    /\ running = t
    /\ status[t] = "collecting"
    /\ stack[t] # <<>>
    /\ Top(t).pc = "loop"
    /\ \/ /\ Top(t).dirs # <<>>
          /\ Len(stack[t]) < RecursionLimit
          /\ stack' = [stack EXCEPT ![t] =
                  Append([@ EXCEPT ![Len(@)].pc = "call",
                                   ![Len(@)].dirs = Tail(Top(t).dirs)],
                         Frame(Head(Top(t).dirs)))]
          /\ UNCHANGED <<cache, obtained, written, ret, all_files, status>>
       \/ /\ Top(t).dirs = <<>>
          /\ LET res == FilterFiles(Top(t).all_files, req[t].skip)
                 key == CacheKey(Top(t).path, req[t].skip)
             IN  /\ cache' = CachePut(cache, key, res, now)
                 /\ obtained' = (key :> Top(t).oldest) @@ obtained
                 /\ written' = [written EXCEPT ![t] = @ \cup {key}]
                 /\ ReturnFrom(t, res, "fetch")
    /\ UNCHANGED <<now, running, result, req, random_files, tracks, fetched,
                   posted, failedAt, calls>>

\* one turn of the loop over directory["directories"]: the nested call, or
\* RecursionError when the interpreter allows no further frame; after the
\* last turn the filter, the assignment to cache[key] and the return
Loop(t) ==
    /\ running = t
    /\ status[t] = "collecting"
    /\ stack[t] # <<>>
    /\ Top(t).pc = "loop"
    /\ \/ /\ Top(t).dirs # <<>>
          /\ Len(stack[t]) < RecursionLimit
          /\ stack' = [stack EXCEPT ![t] =
                  Append([@ EXCEPT ![Len(@)].pc = "call",
                                   ![Len(@)].dirs = Tail(Top(t).dirs)],
                         Frame(Head(Top(t).dirs)))]
          /\ UNCHANGED <<cache, obtained, written, ret, all_files, status,
                         running, result>>
       \/ /\ Top(t).dirs # <<>>
          /\ Len(stack[t]) >= RecursionLimit
          /\ cache' = CacheAfterFailure(cache, stack[t], req[t].skip, now)
          /\ stack' = [stack EXCEPT ![t] = <<>>]
          /\ status' = [status EXCEPT ![t] = "failed"]
          /\ result' = [result EXCEPT ![t] = "RecursionError"]
          /\ running' = 0
          /\ UNCHANGED <<obtained, written, ret, all_files>>
       \/ /\ Top(t).dirs = <<>>
          /\ LET res == FilterFiles(Top(t).all_files, req[t].skip)
                 key == CacheKey(Top(t).path, req[t].skip)
             IN  /\ cache' = CachePut(cache, key, res, now)
                 /\ obtained' = (key :> Top(t).oldest) @@ obtained
                 /\ written' = [written EXCEPT ![t] = @ \cup {key}]
                 /\ ReturnFrom(t, res, "fetch")
          /\ UNCHANGED <<running, result>>
    /\ UNCHANGED <<now, req, random_files, tracks, fetched, posted, failedAt,
                   calls>>

\* mdp_play_random_tracks after get_all_files, called with count and the
\* flags fl: the draw, the sort and the call of mpd_play_tracks;
\* population[floor(random() * n)] raises IndexError when a draw is asked of
\* an empty population
SelectFrom(t, counts, flags) ==
    /\ running = t
    /\ status[t] = "selecting"
    /\ \E count \in counts, fl \in flags :
        LET draws == choices(all_files[t],
                             SampleSize(count, Len(all_files[t])))
        IN  /\ req' = [req EXCEPT ![t].count = count,
                                  ![t].clear_first = fl[1],
                                  ![t].start_playing = fl[2]]
            /\ \/ /\ \E chosen \in draws :
                        /\ random_files' = [random_files EXCEPT ![t] = chosen]
                        /\ tracks' = [tracks EXCEPT ![t] =
                                         SortedTracks(chosen)]
                  /\ status' = [status EXCEPT ![t] = "playing"]
                  /\ UNCHANGED <<running, result>>
               \/ /\ draws = {}
                  /\ status' = [status EXCEPT ![t] = "failed"]
                  /\ result' = [result EXCEPT ![t] = "IndexError"]
                  /\ running' = 0
                  /\ UNCHANGED <<random_files, tracks>>
    /\ UNCHANGED <<now, cache, obtained, stack, ret, all_files, fetched, posted,
                   written, failedAt, calls>>

Select(t) == SelectFrom(t, Counts, Flags)

\* mpd_play_tracks up to its await: the commands are built and posted
PlayTracks(t) ==
    /\ running = t
    /\ status[t] = "playing"
    /\ posted' = [posted EXCEPT ![t] =
          Append(@, Commands(tracks[t], req[t].clear_first,
                             req[t].start_playing))]
    /\ status' = [status EXCEPT ![t] = "posting"]
    /\ running' = 0
    /\ UNCHANGED <<now, cache, obtained, req, stack, ret, all_files, random_files,
                   tracks, result, fetched, written, failedAt, calls>>

\* the player request is answered 2xx: response.json() is returned
PostOk(t) ==
    /\ running = 0
    /\ status[t] = "posting"
    /\ status' = [status EXCEPT ![t] = "done"]
    /\ result' = [result EXCEPT ![t] = "Status"]
    /\ UNCHANGED <<now, cache, obtained, running, req, stack, ret, all_files,
                   random_files, tracks, fetched, posted, written, failedAt,
                   calls>>

\* the player request fails
PostFail(t) ==
    /\ running = 0
    /\ status[t] = "posting"
    /\ status' = [status EXCEPT ![t] = "failed"]
    /\ result' = [result EXCEPT ![t] = "GatewayError"]
    /\ UNCHANGED <<now, cache, obtained, running, req, stack, ret, all_files,
                   random_files, tracks, fetched, posted, written, failedAt,
                   calls>>

\* time passes while the tasks await
Tick ==
    /\ running = 0
    /\ now < MaxTime
    /\ now' = now + 1
    /\ UNCHANGED <<cache, obtained, running, status, req, stack, ret, all_files,
                   random_files, tracks, result, fetched, posted, written,
                   failedAt, calls>>

Next ==
    \/ Tick
    \/ \E t \in Tasks :
        \/ PlayRandomCall(t)
        \/ PlayTracksCall(t)
        \/ PlayTracks(t)
        \/ Enter(t)
        \/ FetchOk(t)
        \/ FetchFail(t)
        \/ Loop(t)
        \/ Select(t)
        \/ PostOk(t)
        \/ PostFail(t)

Spec == Init /\ [][Next]_vars

\* ---------------------------------------------------------- concurrent calls

\* two tool calls served at once: two tasks on the one event loop
Workers == {1, 2}

\* the arguments the concurrent calls are made with
ConcPaths == {pRoot, pA}
OneCount == {1}
OneFlags == {<<TRUE, TRUE>>}

ConcCall(t) == PlayRandom(t, ConcPaths)

\* mdp_play_random_tracks after get_all_files, called with count=1 and both
\* flags set
SelectOne(t) == SelectFrom(t, OneCount, OneFlags)

InitConc ==
    /\ now = 0
    /\ cache = <<>>
    /\ obtained = <<>>
    /\ running = 0
    /\ status = [t \in Workers |-> "idle"]
    /\ req = [t \in Workers |-> NoReq]
    /\ stack = [t \in Workers |-> <<>>]
    /\ ret = [t \in Workers |-> None]
    /\ all_files = [t \in Workers |-> <<>>]
    /\ random_files = [t \in Workers |-> <<>>]
    /\ tracks = [t \in Workers |-> <<>>]
    /\ result = [t \in Workers |-> "none"]
    /\ fetched = [t \in Workers |-> <<>>]
    /\ posted = [t \in Workers |-> <<>>]
    /\ written = [t \in Workers |-> {}]
    /\ failedAt = [t \in Workers |-> None]
    /\ calls = 0

\* the task is cancelled while it awaits the dirbrowser or the player:
\* CancelledError is raised at the await and leaves every frame
Cancel(t) ==
    /\ running = 0
    /\ \/ status[t] = "posting"
       \/ status[t] = "collecting" /\ stack[t] # <<>> /\ Top(t).pc = "fetch"
    /\ cache' = IF stack[t] = <<>> THEN cache
                ELSE CacheAfterFailure(cache, stack[t], req[t].skip, now)
    /\ stack' = [stack EXCEPT ![t] = <<>>]
    /\ status' = [status EXCEPT ![t] = "failed"]
    /\ result' = [result EXCEPT ![t] = "CancelledError"]
    /\ UNCHANGED <<now, obtained, running, req, ret, all_files,
                   random_files, tracks, fetched, posted, written, failedAt,
                   calls>>

NextConc ==
    \/ Tick
    \/ \E t \in Workers :
        \/ ConcCall(t)
        \/ PlayTracks(t)
        \/ Enter(t)
        \/ FetchOk(t)
        \/ FetchFail(t)
        \/ Cancel(t)
        \/ Loop(t)
        \/ SelectOne(t)
        \/ PostOk(t)
        \/ PostFail(t)

SpecConc == InitConc /\ [][NextConc]_vars

\* ------------------------------------------------------- a malformed library

\* calls on the pages that list each other, and on a well-formed directory
CycPaths == {pC, pCD, pA}

CycCall(t) == PlayRandom(t, CycPaths)

NextCyc ==
    \/ Tick
    \/ \E t \in Tasks :
        \/ CycCall(t)
        \/ PlayTracks(t)
        \/ Enter(t)
        \/ FetchOk(t)
        \/ FetchFail(t)
        \/ Loop(t)
        \/ SelectOne(t)
        \/ PostOk(t)
        \/ PostFail(t)

\* the event loop runs a task that is ready, and every dirbrowser request
\* is answered or fails
FairCyc ==
    \A t \in Tasks :
        /\ WF_vars(Enter(t))
        /\ WF_vars(Loop(t))
        /\ WF_vars(FetchOk(t) \/ FetchFail(t))

SpecCyc == Init /\ [][NextCyc]_vars /\ FairCyc

\* ------------------------------------------------------------------ claims

\* task t is about to run get_all_files(path, skip) from its first line
AtEnter(t) ==
    /\ running = t
    /\ status[t] = "collecting"
    /\ stack[t] # <<>>
    /\ Top(t).pc = "enter"

\* the cache key of the innermost get_all_files of task t
KeyOf(t) == <<Top(t).path, req[t].skip>>

\* the innermost get_all_files of task t returns res in this step
Returns(t, res) ==
    /\ Len(stack'[t]) = Len(stack[t]) - 1
    /\ ret'[t] # None
    /\ ret'[t][1].path = Top(t).path
    /\ ret'[t][1].files = res

Range(seq) == { seq[i] : i \in 1..Len(seq) }

\* C1: a get_all_files(path, skip) that finds an entry for (path, skip) with
\* now - ts < CACHE_TIMEOUT returns in that step exactly the stored files and
\* sends no dirbrowser request, for path or below it.
C1_CacheHitAvoidsIO ==
    [][\A t \in Tasks :
          ( /\ AtEnter(t)
            /\ KeyOf(t) \in DOMAIN cache
            /\ now - cache[KeyOf(t)].ts < CACHE_TIMEOUT
            /\ stack'[t] # stack[t] )
          => /\ Returns(t, cache[KeyOf(t)].files)
             /\ fetched' = fetched]_vars

\* a whole tool call answered from the cache: files returned, nothing fetched
C1_Witness ==
    \E t \in Tasks :
        /\ ret[t] # None
        /\ ret[t][1].how = "hit"
        /\ ret[t][1].path = req[t].path
        /\ ret[t][1].files # <<>>
        /\ fetched[t] = <<>>
        /\ status[t] = "selecting"

\* C2 as stated: for every key, a get_all_files that finds an entry older than
\* CACHE_TIMEOUT sends a dirbrowser request.
C2_EveryKeyRefetches ==
    [][\A t \in Tasks :
          ( /\ AtEnter(t)
            /\ KeyOf(t) \in DOMAIN cache
            /\ now - cache[KeyOf(t)].ts > CACHE_TIMEOUT
            /\ stack'[t] # stack[t] )
          => Len(fetched'[t]) > Len(fetched[t])]_vars

\* C2 amended: for every key whose path should_skip does not prune, a
\* get_all_files that finds an entry older than CACHE_TIMEOUT sends the
\* dirbrowser request for its path and does not return from the cache.
C2_StaleEntryRefetches ==
    [][\A t \in Tasks :
          ( /\ AtEnter(t)
            /\ KeyOf(t) \in DOMAIN cache
            /\ now - cache[KeyOf(t)].ts > CACHE_TIMEOUT
            /\ ~should_skip(Top(t).path, req[t].skip)
            /\ stack'[t] # stack[t] )
          => /\ fetched'[t] = Append(fetched[t], Top(t).path)
             /\ Len(stack'[t]) = Len(stack[t])
             /\ ret'[t] = ret[t]]_vars

\* the request for a path is out while its expired entry is still stored
C2_Witness ==
    \E t \in Tasks :
        /\ status[t] = "collecting"
        /\ stack[t] # <<>>
        /\ Top(t).pc = "fetch"
        /\ fetched[t] = <<Top(t).path>>
        /\ KeyOf(t) \in DOMAIN cache
        /\ cache[KeyOf(t)].files # <<>>
        /\ now - cache[KeyOf(t)].ts > CACHE_TIMEOUT

RECURSIVE ConcatAll(_)
ConcatAll(seqs) ==
    IF seqs = <<>> THEN <<>> ELSE Head(seqs) \o ConcatAll(Tail(seqs))

RECURSIVE Flatten(_, _)
\* the reference flattening of the subtree of path: nothing for a pruned
\* path, else its files, then the flattening of each folder in listing
\* order, the files that should_skip matches removed
Flatten(path, skip) ==
    IF should_skip(path, skip) THEN <<>>
    ELSE LET d == get_files(path)
             below == [i \in 1..Len(d.directories) |->
                          Flatten(d.directories[i], skip)]
             Keep(f) == ~should_skip(f, skip)
         IN  SelectSeq(d.files \o ConcatAll(below), Keep)

\* C3: what get_all_files(path, skip) returns for a path not pruned is the
\* reference flattening of the subtree, and the cache holds that sequence
\* under (path, skip).
C3_ReturnsFlattening ==
    \A t \in Tasks :
        ( /\ ret[t] # None
          /\ ~should_skip(ret[t][1].path, req[t].skip) )
        => /\ ret[t][1].files = Flatten(ret[t][1].path, req[t].skip)
           /\ <<ret[t][1].path, req[t].skip>> \in DOMAIN cache
           /\ cache[<<ret[t][1].path, req[t].skip>>].files = ret[t][1].files

\* the root collected through the gateway, two levels deep, no pattern
C3_Witness ==
    \E t \in Tasks :
        /\ ret[t] # None
        /\ ret[t][1].path = pRoot
        /\ ret[t][1].how = "fetch"
        /\ req[t].skip = None
        /\ Len(ret[t][1].files) = 4
        /\ Len(fetched[t]) = 3

\* C4: get_all_files(path, skip) with should_skip(path, skip) returns the
\* empty list in that step and sends no dirbrowser request, whatever the
\* cache holds for its key.
C4_SkipPrunesSubtree ==
    [][\A t \in Tasks :
          ( /\ AtEnter(t)
            /\ should_skip(Top(t).path, req[t].skip)
            /\ stack'[t] # stack[t] )
          => /\ Returns(t, <<>>)
             /\ fetched' = fetched]_vars

\* a pruned path answered while the cache holds an entry for its key
C4_Witness ==
    \E t \in Tasks :
        /\ ret[t] # None
        /\ ret[t][1].how = "hit"
        /\ should_skip(ret[t][1].path, req[t].skip)
        /\ ret[t][1].files = <<>>
        /\ ret[t][1].path = req[t].path
        /\ fetched[t] = <<>>

\* C5: no list get_all_files returned and no list stored under (q, skip)
\* holds a file that should_skip(file, skip) matches.
C5_NoSkippedFile ==
    /\ \A t \in Tasks :
          ret[t] # None =>
              \A f \in Range(ret[t][1].files) : ~should_skip(f, req[t].skip)
    /\ \A k \in DOMAIN cache :
          \A f \in Range(cache[k].files) : ~should_skip(f, k[2])

\* the root's entry under the pattern x: its own page and the child A's list
\* went through the filter, and A's page lists a file the pattern matches
C5_Witness ==
    /\ <<pRoot, Some(<<"x">>)>> \in DOMAIN cache
    /\ Len(cache[<<pRoot, Some(<<"x">>)>>].files) = 2
    /\ ~should_skip(pA, Some(<<"x">>))
    /\ \E f \in Range(get_files(pA).files) : should_skip(f, Some(<<"x">>))

\* the cache keys whose entry this step stores or replaces
Changed ==
    { k \in DOMAIN cache' : k \notin DOMAIN cache \/ cache'[k] # cache[k] }

\* C6: a step stores an entry only for a key that a task records as
\* written, no step removes an entry, and the step in which a dirbrowser
\* request fails changes no entry: neither the key of the outermost
\* get_all_files nor the key of the failing directory was written in the
\* call, and the entries written for the directories gathered before stay.
C6_NoPartialCacheWrites ==
    [][/\ DOMAIN cache \subseteq DOMAIN cache'
       /\ \A k \in Changed : \E t \in Tasks : k \in written'[t]
       /\ \A t \in Tasks :
            (status[t] = "collecting" /\ status'[t] = "failed")
            => /\ cache' = cache
               /\ written'[t] = written[t]
               /\ <<req[t].path, req[t].skip>> \notin written'[t]
               /\ <<Top(t).path, req[t].skip>> \notin written'[t]
               /\ \A k \in written'[t] : k \in DOMAIN cache']_vars

\* the root's call failed at its second directory, after the first was stored
C6_Witness ==
    \E t \in Tasks :
        /\ status[t] = "failed"
        /\ failedAt[t] = Some(pX)
        /\ req[t].path = pRoot
        /\ written[t] = {<<pA, req[t].skip>>}
        /\ <<pA, req[t].skip>> \in DOMAIN cache
        /\ <<pRoot, req[t].skip>> \notin DOMAIN cache
        /\ <<pX, req[t].skip>> \notin DOMAIN cache

\* C7: a call of mdp_play_random_tracks in which a dirbrowser request failed
\* has failed with that error: the failing path was requested once and
\* nothing after it, no file list was bound or drawn from, and no player
\* request was sent.
C7_FailFast ==
    \A t \in Tasks :
        failedAt[t] # None
        => /\ req[t].tool = "play_random"
           /\ status[t] = "failed"
           /\ result[t] = "GatewayError"
           /\ stack[t] = <<>>
           /\ fetched[t] # <<>>
           /\ fetched[t][Len(fetched[t])] = failedAt[t][1]
           /\ Cardinality({ i \in 1..Len(fetched[t]) :
                              fetched[t][i] = failedAt[t][1] }) = 1
           /\ all_files[t] = <<>>
           /\ random_files[t] = <<>>
           /\ tracks[t] = <<>>
           /\ posted[t] = <<>>

\* a request below the root failed after another had been answered
C7_Witness ==
    \E t \in Tasks :
        /\ failedAt[t] # None
        /\ failedAt[t][1] # req[t].path
        /\ Len(fetched[t]) = 3
        /\ status[t] = "failed"

\* mdp_play_random_tracks of task t is past its call of random.choices
Drawn(t) ==
    /\ req[t].tool = "play_random"
    /\ \/ status[t] \in {"playing", "posting", "done"}
       \/ status[t] = "failed" /\ failedAt[t] = None

\* C8: for count >= 0 the draw has min(count, len(files)) elements, each one
\* of files; for no files the draw is empty whatever count is, and the draw
\* raises nothing.
C8_SamplingBound ==
    \A t \in Tasks :
        Drawn(t)
        => LET n == Len(all_files[t])
               c == req[t].count
           IN  /\ result[t] # "IndexError"
               /\ c >= 0 =>
                    /\ Len(random_files[t]) = (IF c < n THEN c ELSE n)
                    /\ Range(random_files[t]) \subseteq Range(all_files[t])
               /\ n = 0 => random_files[t] = <<>>

\* more tracks asked for than the directory holds
C8_Witness ==
    \E t \in Tasks :
        /\ Drawn(t)
        /\ status[t] = "playing"
        /\ req[t].count = 2
        /\ Len(all_files[t]) = 1
        /\ Len(random_files[t]) = 1

\* mpd_play_tracks of task t has sent its player request
Sent(t) ==
    \/ status[t] \in {"posting", "done"}
    \/ status[t] = "failed" /\ failedAt[t] = None /\ result[t] = "GatewayError"

\* C9: mpd_play_tracks sends one player request; its commands are clear
\* first iff clear_first, then add of each track in the order given, then
\* play last iff start_playing, and nothing else.
C9_CommandSequencing ==
    \A t \in Tasks :
        Sent(t)
        => /\ Len(posted[t]) = 1
           /\ LET c == posted[t][1]
                  n == Len(tracks[t])
                  off == IF req[t].clear_first THEN 1 ELSE 0
                  end == IF req[t].start_playing THEN 1 ELSE 0
              IN  /\ Len(c) = off + n + end
                  /\ req[t].clear_first => c[1] = <<"clear">>
                  /\ \A i \in 1..n : c[off + i] = <<"add", tracks[t][i]>>
                  /\ req[t].start_playing => c[Len(c)] = <<"play">>

\* the tool called with two different tracks and both flags set
C9_Witness ==
    \E t \in Tasks :
        /\ status[t] = "done"
        /\ req[t].tool = "play_tracks"
        /\ req[t].clear_first
        /\ req[t].start_playing
        /\ Len(tracks[t]) = 2
        /\ tracks[t][1] # tracks[t][2]
        /\ Len(posted[t][1]) = 4

a_mp3 == <<"a", ".", "m", "p", "3">>
b_mp3 == <<"b", ".", "m", "p", "3">>

\* mpd_play_tracks(["b.mp3", "a.mp3"], True, True) has sent its request
SentBA(t) ==
    /\ Sent(t)
    /\ req[t].tool = "play_tracks"
    /\ tracks[t] = <<b_mp3, a_mp3>>
    /\ req[t].clear_first
    /\ req[t].start_playing

\* C10 as stated: the add commands come out sorted, a.mp3 before b.mp3.
C10_AddsSorted ==
    \A t \in Tasks :
        SentBA(t)
        => posted[t] = << << <<"clear">>, <<"add", a_mp3>>,
                             <<"add", b_mp3>>, <<"play">> >> >>

\* C10 amended: the add commands come out in the order given, b.mp3 before
\* a.mp3.
C10_AddsInOrderGiven ==
    \A t \in Tasks :
        SentBA(t)
        => posted[t] = << << <<"clear">>, <<"add", b_mp3>>,
                             <<"add", a_mp3>>, <<"play">> >> >>

\* that call, answered
C10_Witness ==
    \E t \in Tasks : SentBA(t) /\ status[t] = "done"

\* the tracks of the add commands of a command list, in their order
AddsOf(commands) ==
    LET IsAdd(c) == c[1] = "add"
        adds == SelectSeq(commands, IsAdd)
    IN  [i \in 1..Len(adds) |-> adds[i][2]]

\* C11: in the player request of mdp_play_random_tracks the tracks of the
\* add commands are one per file drawn and never decrease: no track is
\* followed by a track that is less than it as a string.
C11_AddsNonDecreasing ==
    \A t \in Tasks :
        (req[t].tool = "play_random" /\ Sent(t))
        => LET adds == AddsOf(posted[t][1])
           IN  /\ Len(adds) = Len(random_files[t])
               /\ \A i \in 1..(Len(adds) - 1) :
                      ~StrLess(adds[i + 1], adds[i])

\* two files drawn in descending order, their tracks sent ascending
C11_Witness ==
    \E t \in Tasks :
        /\ req[t].tool = "play_random"
        /\ status[t] = "done"
        /\ Len(random_files[t]) = 2
        /\ StrLess(unquote(random_files[t][2]), unquote(random_files[t][1]))
        /\ Len(AddsOf(posted[t][1])) = 2
        /\ StrLess(AddsOf(posted[t][1])[1], AddsOf(posted[t][1])[2])

\* C12: when get_all_files gave mdp_play_random_tracks no file, the call
\* raises nothing of its own for any count: no track is drawn, one player
\* request is sent and it holds no add command, the call ends with the
\* player's status when that request is answered, and it fails only when
\* that request fails.
C12_EmptySelection ==
    \A t \in Tasks :
        (Drawn(t) /\ all_files[t] = <<>>)
        => /\ result[t] # "IndexError"
           /\ random_files[t] = <<>>
           /\ tracks[t] = <<>>
           /\ status[t] \in {"posting", "done", "failed"}
                => /\ Len(posted[t]) = 1
                   /\ AddsOf(posted[t][1]) = <<>>
           /\ status[t] = "done" => result[t] = "Status"
           /\ status[t] = "failed" => result[t] = "GatewayError"

\* two tracks asked of a pruned directory: the call ended with the status
C12_Witness ==
    \E t \in Tasks :
        /\ req[t].tool = "play_random"
        /\ status[t] = "done"
        /\ ret[t] # None
        /\ ret[t][1].path = req[t].path
        /\ all_files[t] = <<>>
        /\ req[t].count = MaxCount
        /\ result[t] = "Status"
        /\ posted[t][1] # <<>>

\* the get_all_files of task t for the key k ends in this step by its last
\* line, having computed its result (it did not return from the cache)
Finishes(t, k) ==
    /\ stack[t] # <<>>
    /\ KeyOf(t) = k
    /\ status'[t] # "failed"
    /\ Len(stack'[t]) = Len(stack[t]) - 1
    /\ ret'[t] # None
    /\ ret'[t][1].path = k[1]
    /\ ret'[t][1].how # "hit"

\* C13: with two calls interleaved at the awaits, and requests failing or
\* tasks cancelled at any await, every entry the cache holds after a step is
\* the whole filtered flattening of its key's subtree; an entry is stored
\* or replaced only in the step in which a get_all_files for exactly that
\* key finishes; the get_all_files that finishes leaves its own result and
\* the current time under its key, whatever another task stored there
\* before; and the step in which a call fails or is cancelled changes no
\* entry.
C13_WholeEntriesLastWriteWins ==
    [][/\ \A k \in DOMAIN cache' : cache'[k].files = Flatten(k[1], k[2])
       /\ \A k \in Changed : \E t \in Workers : Finishes(t, k)
       /\ \A t \in Workers :
            (stack[t] # <<>> /\ Finishes(t, KeyOf(t)))
            => /\ KeyOf(t) \in DOMAIN cache'
               /\ cache'[KeyOf(t)] =
                      [files |-> ret'[t][1].files, ts |-> now]
       /\ \A t \in Workers :
            (status[t] # "failed" /\ status'[t] = "failed")
            => cache' = cache]_vars

\* two calls raced on one key: both fetched its page and both stored it
\* within one tick, where the second would have been served from the cache
\* had it started after the first ended
C13_Witness ==
    \E k \in DOMAIN cache :
        /\ k \in written[1]
        /\ k \in written[2]
        /\ k[1] \in Range(fetched[1])
        /\ k[1] \in Range(fetched[2])
        /\ now = 0
        /\ cache[k].files # <<>>

\* C14: no step removes a cache entry, and an entry, expired or not, keeps
\* its files and its timestamp in every step except the one in which a
\* get_all_files for its own key finishes, which replaces the entry whole
\* by that call's result and the current time; a get_all_files that adds a
\* directory's list to its parent's all_files, or that fails, changes no
\* entry of another key.
C14_EntriesKeptUntilReplaced ==
    [][/\ DOMAIN cache \subseteq DOMAIN cache'
       /\ \A k \in DOMAIN cache :
            cache'[k] # cache[k]
            => \E t \in DOMAIN status :
                  /\ Finishes(t, k)
                  /\ cache'[k] = [files |-> ret'[t][1].files, ts |-> now]]_vars

\* the refresh of an expired entry failed at its request: the entry is
\* still stored, with the files and the timestamp it had
C14_Witness ==
    \E t \in Tasks :
        /\ status[t] = "failed"
        /\ failedAt[t] = Some(req[t].path)
        /\ <<req[t].path, req[t].skip>> \in DOMAIN cache
        /\ cache[<<req[t].path, req[t].skip>>].files # <<>>
        /\ now - cache[<<req[t].path, req[t].skip>>].ts >= CACHE_TIMEOUT

\* C15: a get_all_files that finds an entry for its key returns the stored
\* files without assigning to the cache and without a dirbrowser request
\* exactly when now - ts < CACHE_TIMEOUT; at an age of CACHE_TIMEOUT or
\* more it computes its result anew.
C15_ValidityBoundary ==
    [][\A t \in Tasks :
          ( /\ AtEnter(t)
            /\ KeyOf(t) \in DOMAIN cache
            /\ stack'[t] # stack[t] )
          => ( ( /\ Returns(t, cache[KeyOf(t)].files)
                 /\ fetched' = fetched
                 /\ written' = written )
               <=> now - cache[KeyOf(t)].ts < CACHE_TIMEOUT )]_vars

\* an entry met at the age of exactly CACHE_TIMEOUT: its path is requested
\* again
C15_Witness ==
    \E t \in Tasks :
        /\ status[t] = "collecting"
        /\ stack[t] # <<>>
        /\ Top(t).pc = "fetch"
        /\ fetched[t] = <<Top(t).path>>
        /\ KeyOf(t) \in DOMAIN cache
        /\ cache[KeyOf(t)].files # <<>>
        /\ now - cache[KeyOf(t)].ts = CACHE_TIMEOUT

\* C16 as stated: when get_all_files returns the files of an entry that is
\* still valid, every dirbrowser response those files were gathered from
\* was received less than CACHE_TIMEOUT before the return.
C16_ServedDataYoungerThanTimeout ==
    [][\A t \in Tasks :
          ( /\ AtEnter(t)
            /\ KeyOf(t) \in DOMAIN cache
            /\ now - cache[KeyOf(t)].ts < CACHE_TIMEOUT
            /\ cache[KeyOf(t)].files # <<>>
            /\ stack'[t] # stack[t] )
          => now - obtained[KeyOf(t)] < CACHE_TIMEOUT]_vars

\* a call answered from an entry younger than CACHE_TIMEOUT whose oldest
\* page was received CACHE_TIMEOUT ago or earlier
C16_Witness ==
    \E t \in Tasks :
        /\ status[t] = "selecting"
        /\ ret[t] # None
        /\ ret[t][1].how = "hit"
        /\ ret[t][1].path = req[t].path
        /\ ret[t][1].files # <<>>
        /\ now - cache[<<req[t].path, req[t].skip>>].ts < CACHE_TIMEOUT
        /\ now - obtained[<<req[t].path, req[t].skip>>] >= CACHE_TIMEOUT

Reported ==
    UNION { Range(Tree[p].files) : p \in DOMAIN Tree }

\* C18 as stated: every track of an add command of mdp_play_random_tracks
\* is a reported path decoded once, and should_skip does not match it.
C18_TracksDecodedOnceNotSkipped ==
    \A t \in Tasks :
        (req[t].tool = "play_random" /\ Sent(t))
        => \A tr \in Range(AddsOf(posted[t][1])) :
              /\ \E raw \in Reported : tr = unquote(raw)
              /\ ~should_skip(tr, req[t].skip)

\* a call with the pattern x has sent an add of a track that holds an x
C18_Witness ==
    \E t \in Tasks :
        /\ req[t].tool = "play_random"
        /\ status[t] = "done"
        /\ req[t].skip = Some(<<"x">>)
        /\ \E tr \in Range(AddsOf(posted[t][1])) :
              /\ Contains(<<"x">>, tr)
              /\ tr \notin { unquote(raw) : raw \in Reported }

RECURSIVE Below(_, _)
\* path and the directories listed under it, to n levels
Below(path, n) ==
    IF n = 0 THEN {path}
    ELSE {path} \cup
         UNION { Below(d, n - 1) : d \in Range(get_files(path).directories) }

\* C19: a step of a call of mdp_play_random_tracks(path, .., skip) stores or
\* replaces only entries whose key holds exactly skip and a directory that
\* is path or listed below it, so every other entry is unchanged; every
\* get_all_files of the call is for such a directory; and a get_all_files
\* whose own key has no entry never returns from the cache, whatever is
\* stored for the same directory under another pattern.
C19_KeyIndependence ==
    [][\A t \in Tasks :
          /\ \A k \in Changed :
                /\ k[2] = req[t].skip
                /\ k[1] \in Below(req[t].path, RecursionLimit)
          /\ \A i \in 1..Len(stack'[t]) :
                stack'[t][i].path \in Below(req'[t].path, RecursionLimit)
          /\ ( /\ AtEnter(t)
               /\ KeyOf(t) \notin DOMAIN cache
               /\ stack'[t] # stack[t] )
             => \/ fetched'[t] # fetched[t]
                \/ written'[t] = written[t] \cup {KeyOf(t)}]_vars

\* directory A is stored under both patterns, with different files, and the
\* entry stored first was not touched by the call that stored the second
C19_Witness ==
    /\ <<pA, None>> \in DOMAIN cache
    /\ <<pA, Some(<<"x">>)>> \in DOMAIN cache
    /\ cache[<<pA, None>>].files # cache[<<pA, Some(<<"x">>)>>].files
    /\ cache[<<pA, None>>].ts # cache[<<pA, Some(<<"x">>)>>].ts

\* C20: the step in which get_all_files returns the files of a valid entry
\* leaves the cache as it was: no key added, none replaced, and the
\* timestamp of the entry read not renewed.
C20_HitLeavesCacheUnchanged ==
    [][\A t \in Tasks :
          ( /\ AtEnter(t)
            /\ KeyOf(t) \in DOMAIN cache
            /\ now - cache[KeyOf(t)].ts < CACHE_TIMEOUT
            /\ stack'[t] # stack[t] )
          => cache' = cache]_vars

\* a call answered from an entry one tick old: the entry still bears the
\* time it was stored at
C20_Witness ==
    \E t \in Tasks :
        /\ status[t] = "selecting"
        /\ ret[t] # None
        /\ ret[t][1].how = "hit"
        /\ ret[t][1].path = req[t].path
        /\ ret[t][1].files # <<>>
        /\ cache[<<req[t].path, req[t].skip>>].ts = now - 1

====
